---- MODULE Spec2Model ----
(***************************************************************************)
(* matchit-serde: a serde Deserializer over the (key, value) string pairs  *)
(* a matchit router captures.  The model follows src/lib.rs: the Params     *)
(* view, the error taxonomy, and every method of                           *)
(* impl Deserializer for &ParamsDeserializer.  Texts are sequences of      *)
(* one-character strings, so that parsing is computed and not assumed.     *)
(***************************************************************************)
EXTENDS Integers, Sequences, FiniteSets, TLC

VARIABLES params, deserializer, pc, depth, request, result, calls, reads, raisedBy

vars == <<params, deserializer, pc, depth, request, result, calls, reads, raisedBy>>

\* a request of the target type: the Deserializer method it calls and the
\* visitor it passes, with the macro invocation behind a scalar method and the
\* len argument of a tuple method
Request(method, visitor) == [method |-> method, visitor |-> visitor]

ScalarRequest(method, visitor, macro) ==
    [method |-> method, visitor |-> visitor, macro |-> macro]

TupleRequest(method, visitor, arity) ==
    [method |-> method, visitor |-> visitor, arity |-> arity]

(***************************************************************************)
(* Bounds of the model.                                                    *)
(***************************************************************************)
\* longest Param List explored
MaxLen == 2
\* largest arity a tuple or tuple struct request names
MaxArity == 2
\* deepest nesting of newtype wrappers around the requested shape
MaxDepth == 2

(***************************************************************************)
(* Texts.                                                                  *)
(***************************************************************************)
Digits == {"0", "1", "2", "3", "4", "5", "6", "7", "8", "9"}

DigitVal(c) ==
    CASE c = "0" -> 0 [] c = "1" -> 1 [] c = "2" -> 2 [] c = "3" -> 3
      [] c = "4" -> 4 [] c = "5" -> 5 [] c = "6" -> 6 [] c = "7" -> 7
      [] c = "8" -> 8 [] c = "9" -> 9

IsDigits(s) == \A i \in 1..Len(s) : s[i] \in Digits

\* the keys and the value texts a Param List is drawn from
Keys == { <<"p", "r", "i", "n", "c", "i", "p", "a", "l">>, <<"p", "a", "t", "h">> }

Texts ==
    { <<"u", "s", "e", "r">>,
      <<"i", "n", "t", "e", "r", "e", "s", "t", "i", "n", "g">>,
      <<"t", "r", "u", "e">>,
      <<"7">>,
      <<"-", "1", "2", "9">>,
      <<"1", ".", "5">> }

RECURSIVE SeqsUpTo(_, _)
SeqsUpTo(S, n) ==
    IF n = 0 THEN { <<>> }
    ELSE LET shorter == SeqsUpTo(S, n - 1)
         IN  shorter \cup { Append(s, x) : s \in { t \in shorter : Len(t) = n - 1 }, x \in S }

\* every slice of (key, value) pairs a router can hand over, up to MaxLen pairs
ParamLists == SeqsUpTo(Keys \X Texts, MaxLen)

(***************************************************************************)
(* The standard textual parsers behind value.parse(): FromStr of bool,     *)
(* the integers, the floats, String and char.  An integer is carried as    *)
(* its sign and its decimal magnitude, so that no width is lost.           *)
(***************************************************************************)
RECURSIVE StripZeros(_)
StripZeros(ds) ==
    IF ds = <<>> THEN <<>>
    ELSE IF Head(ds) = "0" THEN StripZeros(Tail(ds)) ELSE ds

RECURSIVE StripTrailingZeros(_)
StripTrailingZeros(ds) ==
    IF ds = <<>> THEN <<>>
    ELSE IF ds[Len(ds)] = "0" THEN StripTrailingZeros(SubSeq(ds, 1, Len(ds) - 1)) ELSE ds

\* the decimal digits of 2^n, most significant first, for the integer widths
Pow2 ==
    7 :> <<1, 2, 8>> @@
    8 :> <<2, 5, 6>> @@
    15 :> <<3, 2, 7, 6, 8>> @@
    16 :> <<6, 5, 5, 3, 6>> @@
    31 :> <<2, 1, 4, 7, 4, 8, 3, 6, 4, 8>> @@
    32 :> <<4, 2, 9, 4, 9, 6, 7, 2, 9, 6>> @@
    63 :> <<9, 2, 2, 3, 3, 7, 2, 0, 3, 6, 8, 5, 4, 7, 7, 5, 8, 0, 8>> @@
    64 :> <<1, 8, 4, 4, 6, 7, 4, 4, 0, 7, 3, 7, 0, 9, 5, 5, 1, 6, 1, 6>> @@
    127 :> <<1, 7, 0, 1, 4, 1, 1, 8, 3, 4, 6, 0, 4, 6, 9, 2, 3, 1, 7, 3, 1, 6, 8, 7, 3,
                 0, 3, 7, 1, 5, 8, 8, 4, 1, 0, 5, 7, 2, 8>> @@
    128 :> <<3, 4, 0, 2, 8, 2, 3, 6, 6, 9, 2, 0, 9, 3, 8, 4, 6, 3, 4, 6, 3, 3, 7, 4, 6,
                 0, 7, 4, 3, 1, 7, 6, 8, 2, 1, 1, 4, 5, 6>>

\* a <= b on big-endian digit values without leading zeros
RECURSIVE LexLeq(_, _)
LexLeq(a, b) ==
    IF a = <<>> THEN TRUE
    ELSE IF Head(a) # Head(b) THEN Head(a) < Head(b)
    ELSE LexLeq(Tail(a), Tail(b))

MagLeq(a, b) == Len(a) < Len(b) \/ (Len(a) = Len(b) /\ LexLeq(a, b))

MagLess(a, b) == a # b /\ MagLeq(a, b)

IntTypes ==
    [ i8 |-> [signed |-> TRUE, bits |-> 8],     i16 |-> [signed |-> TRUE, bits |-> 16],
      i32 |-> [signed |-> TRUE, bits |-> 32],   i64 |-> [signed |-> TRUE, bits |-> 64],
      i128 |-> [signed |-> TRUE, bits |-> 128], u8 |-> [signed |-> FALSE, bits |-> 8],
      u16 |-> [signed |-> FALSE, bits |-> 16],  u32 |-> [signed |-> FALSE, bits |-> 32],
      u64 |-> [signed |-> FALSE, bits |-> 64],  u128 |-> [signed |-> FALSE, bits |-> 128] ]

ParseFail == [ok |-> FALSE]

\* <iN/uN as FromStr>::from_str: an optional sign ('-' only for signed types),
\* one or more decimal digits, and the value within the type's range
parse_int(target, s) ==
    LET t        == IntTypes[target]
        negative == s # <<>> /\ Head(s) = "-" /\ t.signed
        signChar == s # <<>> /\ (Head(s) = "+" \/ negative)
        digits   == IF signChar THEN Tail(s) ELSE s
        mag      == [i \in 1..Len(StripZeros(digits)) |-> DigitVal(StripZeros(digits)[i])]
        limit    == Pow2[IF t.signed THEN t.bits - 1 ELSE t.bits]
        inRange  == IF negative THEN MagLeq(mag, limit) ELSE MagLess(mag, limit)
    IN  IF s = <<>> \/ digits = <<>> \/ ~IsDigits(digits) \/ ~inRange
        THEN ParseFail
        ELSE [ok |-> TRUE, val |-> [int |-> [mag |-> mag, neg |-> negative /\ mag # <<>>]]]

\* <bool as FromStr>::from_str: exactly "true" or "false"
parse_bool(s) ==
    IF s = <<"t", "r", "u", "e">> THEN [ok |-> TRUE, val |-> [bool |-> TRUE]]
    ELSE IF s = <<"f", "a", "l", "s", "e">> THEN [ok |-> TRUE, val |-> [bool |-> FALSE]]
    ELSE ParseFail

\* <char as FromStr>::from_str: exactly one character
parse_char(s) ==
    IF Len(s) = 1 THEN [ok |-> TRUE, val |-> [char |-> s[1]]] ELSE ParseFail

\* <String as FromStr>::from_str never fails
parse_String(s) == [ok |-> TRUE, val |-> [text |-> s]]

Lower(c) ==
    CASE c = "I" -> "i" [] c = "N" -> "n" [] c = "F" -> "f" [] c = "T" -> "t"
      [] c = "Y" -> "y" [] c = "A" -> "a" [] OTHER -> c

FirstIndex(s, cs) ==
    IF \E i \in 1..Len(s) : s[i] \in cs
    THEN CHOOSE i \in 1..Len(s) : s[i] \in cs /\ \A j \in 1..(i - 1) : s[j] \notin cs
    ELSE Len(s) + 1

RECURSIVE NatOf(_)
NatOf(ds) == IF ds = <<>> THEN 0 ELSE 10 * NatOf(SubSeq(ds, 1, Len(ds) - 1)) + DigitVal(ds[Len(ds)])

\* <f32/f64 as FromStr>::from_str: an optional sign, then inf, infinity or nan in
\* any case, or digits with an optional fraction and an optional exponent, at
\* least one digit before or after the point.  The value is carried as its
\* significant decimal digits and decimal exponent, which names one float for
\* the short texts of Texts.
parse_float(target, s) ==
    LET signed   == s # <<>> /\ Head(s) \in {"-", "+"}
        negative == s # <<>> /\ Head(s) = "-"
        body     == IF signed THEN Tail(s) ELSE s
        word     == [i \in 1..Len(body) |-> Lower(body[i])]
        ePos     == FirstIndex(body, {"e", "E"})
        mant     == SubSeq(body, 1, ePos - 1)
        hasExp   == ePos <= Len(body)
        expPart  == SubSeq(body, ePos + 1, Len(body))
        expSign  == expPart # <<>> /\ Head(expPart) \in {"-", "+"}
        expDigs  == IF expSign THEN Tail(expPart) ELSE expPart
        dot      == FirstIndex(mant, {"."})
        intPart  == SubSeq(mant, 1, dot - 1)
        fracPart == SubSeq(mant, dot + 1, Len(mant))
        sig      == StripTrailingZeros(StripZeros(intPart \o fracPart))
        dropped  == Len(StripZeros(intPart \o fracPart)) - Len(sig)
        expVal   == IF ~hasExp THEN 0
                    ELSE IF Head(expPart) = "-" THEN 0 - NatOf(expDigs) ELSE NatOf(expDigs)
        wellFormed ==
            /\ IsDigits(intPart) /\ IsDigits(fracPart)
            /\ intPart \o fracPart # <<>>
            /\ hasExp => (expDigs # <<>> /\ IsDigits(expDigs))
    IN  IF word \in { <<"i", "n", "f">>, <<"i", "n", "f", "i", "n", "i", "t", "y">> }
        THEN [ok |-> TRUE, val |-> [float |-> [neg |-> negative, class |-> "inf"]]]
        ELSE IF word = <<"n", "a", "n">>
        THEN [ok |-> TRUE, val |-> [float |-> [class |-> "nan"]]]
        ELSE IF ~wellFormed THEN ParseFail
        ELSE [ok |-> TRUE,
              val |-> [float |-> [neg |-> negative, sig |-> sig, class |-> "finite",
                                  exp |-> IF sig = <<>> THEN 0
                                          ELSE expVal - Len(fracPart) + dropped]]]

\* value.parse::<T>() for the type T a visit_* callback takes
parse(target, s) ==
    CASE target = "bool" -> parse_bool(s)
      [] target = "char" -> parse_char(s)
      [] target = "String" -> parse_String(s)
      [] target \in {"f32", "f64"} -> parse_float(target, s)
      [] OTHER -> parse_int(target, s)

(***************************************************************************)
(* Params: the borrowed slice of (key, value) pairs and its three views.   *)
(***************************************************************************)
len(p) == Len(p)

\* iter_entries yielding the pairs last to first
iter_entries_reversed(p) == [i \in 1..Len(p) |-> <<p[Len(p) + 1 - i][1], p[Len(p) + 1 - i][2]>>]

iter_entries(p) == [i \in 1..Len(p) |-> <<p[i][1], p[i][2]>>]

\* values yielding the first component of each pair
values_keys(p) == [i \in 1..Len(p) |-> p[i][1]]

values(p) == [i \in 1..Len(p) |-> p[i][2]]

\* ParamsDeserializer::new wraps the Params it is given
new(p) == p

(***************************************************************************)
(* ParamsDeserializationError.                                             *)
(***************************************************************************)
ErrorKinds ==
    { "UnsupportedType", "Custom", "WrongNumberOfParameters", "ParseError",
      "ParseErrorAtKey", "ParseErrorAtIndex" }

Ok(v) == [ok |-> TRUE, val |-> v]

Err(e) == [ok |-> FALSE, err |-> e]

UnsupportedType(type_name) == [kind |-> "UnsupportedType", name |-> type_name]

WrongNumberOfParameters(got, expected) ==
    [kind |-> "WrongNumberOfParameters", got |-> got, expected |-> expected]

ParseError(value, expected_type) ==
    [kind |-> "ParseError", value |-> value, expected_type |-> expected_type]

\* unsupported_type naming the deserializer instead of the requested type
unsupported_type_error_self(visitor) == UnsupportedType("ParamsDeserializer")

\* ParamsDeserializationError::unsupported_type::<T>() names T
unsupported_type_error(visitor) == UnsupportedType(visitor.value)

\* <ParamsDeserializationError as de::Error>::custom
custom(msg) == [kind |-> "Custom", msg |-> msg]

(***************************************************************************)
(* The receiver: the Visitor of the target type.  A visitor either         *)
(* implements the callback it is handed (accept) or falls back to the      *)
(* Visitor default, which reports an invalid type through de::Error.       *)
(***************************************************************************)
ScalarVisitors == { [value |-> "T", accept |-> a] : a \in BOOLEAN }

UnsupportedVisitors ==
    { [value |-> n, accept |-> TRUE] : n \in {"Option<String>", "Method", "&[u8]"} }

\* want: how many elements the receiver pulls (-1: until the stream ends);
\* elem: the element type it asks each element for
SeqVisitors ==
    { [value |-> "Seq", accept |-> TRUE, want |-> w, elem |-> e] :
        w \in -1..MaxArity, e \in {"i32", "String"} }
    \cup { [value |-> "Seq", accept |-> FALSE, want |-> 0, elem |-> "String"] }

\* "Pairs" collects the pairs in the order they arrive; "Path" is the derived
\* visitor of struct Path { principal: String, path: String }
MapVisitors ==
    { [value |-> "Pairs", accept |-> TRUE], [value |-> "Path", accept |-> TRUE],
      [value |-> "Pairs", accept |-> FALSE] }

Built(visitor, v) == [built |-> visitor.value, of |-> v]

\* a visit_<scalar> callback, visit_unit included (arg <<>>)
visit_scalar(visitor, v) ==
    IF visitor.accept THEN Ok(Built(visitor, v)) ELSE Err(custom("invalid type"))

\* an element of the stream reaches the element type's visitor as visit_str
element(elem, text) ==
    IF elem = "String" THEN Ok([text |-> text]) ELSE Err(custom("invalid type"))

\* the receiver's visit_seq over the stream it is handed
visit_seq(visitor, stream) ==
    LET n == IF visitor.want = -1 THEN Len(stream) ELSE visitor.want
        m == IF n > Len(stream) THEN Len(stream) ELSE n
        bad == { i \in 1..m : ~element(visitor.elem, stream[i]).ok }
    IN  IF ~visitor.accept THEN Err(custom("invalid type"))
        ELSE IF bad # {} THEN element(visitor.elem, stream[CHOOSE i \in bad : \A j \in bad : i <= j])
        ELSE IF n > Len(stream) THEN Err(custom("invalid length"))
        ELSE Ok(Built(visitor, [i \in 1..n |-> element(visitor.elem, stream[i]).val]))

PathFields == << <<"p", "r", "i", "n", "c", "i", "p", "a", "l">>, <<"p", "a", "t", "h">> >>

\* the derived visit_map of struct Path: each key picks a field, a field set
\* twice is a duplicate, a field never set is missing
visit_map_Path(visitor, entries) ==
    LET at(f) == { i \in 1..Len(entries) : entries[i][1] = PathFields[f] }
        dup   == { i \in 1..Len(entries) :
                     \E j \in 1..(i - 1) : entries[j][1] = entries[i][1]
                                           /\ \E f \in 1..Len(PathFields) : entries[i][1] = PathFields[f] }
        get(f) == entries[CHOOSE i \in at(f) : TRUE][2]
    IN  IF dup # {} THEN Err(custom("duplicate field"))
        ELSE IF \E f \in 1..Len(PathFields) : at(f) = {} THEN Err(custom("missing field"))
        ELSE Ok(Built(visitor, [principal |-> get(1), path |-> get(2)]))

\* the receiver's visit_map over the pairs it is handed
visit_map(visitor, entries) ==
    IF ~visitor.accept THEN Err(custom("invalid type"))
    ELSE IF visitor.value = "Path" THEN visit_map_Path(visitor, entries)
    ELSE Ok(Built(visitor, entries))

(***************************************************************************)
(* impl Deserializer for &ParamsDeserializer.  Each method yields          *)
(*   calls : the receiver callbacks it invoked, with argument and return   *)
(*   reads : the views of the Param List it used                           *)
(*   res   : what the call returns                                         *)
(*   by    : who constructed the error, if res is one                      *)
(***************************************************************************)
Raise(e, rd) == [calls |-> <<>>, reads |-> rd, res |-> Err(e), by |-> "engine"]

Visited(fn, arg, ret, rd) ==
    [calls |-> << [fn |-> fn, arg |-> arg, ret |-> ret] >>, reads |-> rd, res |-> ret,
     by |-> IF ret.ok THEN "none" ELSE "receiver"]

\* the sixteen invocations of macros::parse_single_value!
ScalarMethods ==
    { [trait_fn |-> "deserialize_bool", visit_fn |-> "visit_bool", ty |-> "bool"],
      [trait_fn |-> "deserialize_i8", visit_fn |-> "visit_i8", ty |-> "i8"],
      [trait_fn |-> "deserialize_i16", visit_fn |-> "visit_i16", ty |-> "i16"],
      [trait_fn |-> "deserialize_i32", visit_fn |-> "visit_i32", ty |-> "i32"],
      [trait_fn |-> "deserialize_i64", visit_fn |-> "visit_i64", ty |-> "i64"],
      [trait_fn |-> "deserialize_i128", visit_fn |-> "visit_i128", ty |-> "i128"],
      [trait_fn |-> "deserialize_u8", visit_fn |-> "visit_u8", ty |-> "u8"],
      [trait_fn |-> "deserialize_u16", visit_fn |-> "visit_u16", ty |-> "u16"],
      [trait_fn |-> "deserialize_u32", visit_fn |-> "visit_u32", ty |-> "u32"],
      [trait_fn |-> "deserialize_u64", visit_fn |-> "visit_u64", ty |-> "u64"],
      [trait_fn |-> "deserialize_u128", visit_fn |-> "visit_u128", ty |-> "u128"],
      [trait_fn |-> "deserialize_f32", visit_fn |-> "visit_f32", ty |-> "f32"],
      [trait_fn |-> "deserialize_f64", visit_fn |-> "visit_f64", ty |-> "f64"],
      [trait_fn |-> "deserialize_string", visit_fn |-> "visit_string", ty |-> "String"],
      [trait_fn |-> "deserialize_byte_buf", visit_fn |-> "visit_string", ty |-> "String"],
      [trait_fn |-> "deserialize_char", visit_fn |-> "visit_char", ty |-> "char"] }

\* the six invocations of macros::unsupported_type!
UnsupportedMethods ==
    { "deserialize_bytes", "deserialize_option", "deserialize_identifier",
      "deserialize_ignored_any", "deserialize_str", "deserialize_any" }

\* the type of the argument of Visitor::visit_<x>, which value.parse() infers
ArgType(visit_fn) ==
    CASE visit_fn = "visit_bool" -> "bool"     [] visit_fn = "visit_char" -> "char"
      [] visit_fn = "visit_string" -> "String" [] visit_fn = "visit_i8" -> "i8"
      [] visit_fn = "visit_i16" -> "i16"       [] visit_fn = "visit_i32" -> "i32"
      [] visit_fn = "visit_i64" -> "i64"       [] visit_fn = "visit_i128" -> "i128"
      [] visit_fn = "visit_u8" -> "u8"         [] visit_fn = "visit_u16" -> "u16"
      [] visit_fn = "visit_u32" -> "u32"       [] visit_fn = "visit_u64" -> "u64"
      [] visit_fn = "visit_u128" -> "u128"     [] visit_fn = "visit_f32" -> "f32"
      [] visit_fn = "visit_f64" -> "f64"

\* parse_single_value parsing the key of the sole pair instead of its value
parse_single_value_key(self, m, visitor) ==
    IF len(self) # 1
    THEN Raise(WrongNumberOfParameters(len(self), 1), {"len"})
    ELSE LET value  == self[1][1]
             parsed == parse(ArgType(m.visit_fn), value)
         IN  IF ~parsed.ok
             THEN Raise(ParseError(value, m.ty), {"len", "index"})
             ELSE Visited(m.visit_fn, parsed.val, visit_scalar(visitor, parsed.val),
                          {"len", "index"})

\* parse_single_value with the two counts of the arity error exchanged
parse_single_value_swapped(self, m, visitor) ==
    IF len(self) # 1
    THEN Raise(WrongNumberOfParameters(1, len(self)), {"len"})
    ELSE LET value  == self[1][2]
             parsed == parse(ArgType(m.visit_fn), value)
         IN  IF ~parsed.ok
             THEN Raise(ParseError(value, m.ty), {"len", "index"})
             ELSE Visited(m.visit_fn, parsed.val, visit_scalar(visitor, parsed.val),
                          {"len", "index"})

\* macros::parse_single_value!
parse_single_value(self, m, visitor) ==
    IF len(self) # 1
    THEN Raise(WrongNumberOfParameters(len(self), 1), {"len"})
    ELSE LET value  == self[1][2]
             parsed == parse(ArgType(m.visit_fn), value)
         IN  IF ~parsed.ok
             THEN Raise(ParseError(value, m.ty), {"len", "index"})
             ELSE Visited(m.visit_fn, parsed.val, visit_scalar(visitor, parsed.val),
                          {"len", "index"})

\* unsupported_type answering like deserialize_string
unsupported_type_as_string(self, visitor) ==
    parse_single_value(self, [trait_fn |-> "deserialize_string", visit_fn |-> "visit_string",
                              ty |-> "String"], visitor)

\* macros::unsupported_type!: the visitor is dropped, the list is not looked at
unsupported_type(self, visitor) == Raise(unsupported_type_error(visitor), {})

\* deserialize_unit_struct insisting on an empty list
deserialize_unit_struct_strict(self, visitor) ==
    IF len(self) # 0
    THEN Raise(WrongNumberOfParameters(len(self), 0), {"len"})
    ELSE Visited("visit_unit", <<>>, visit_scalar(visitor, <<>>), {"len"})

deserialize_unit(self, visitor) ==
    Visited("visit_unit", <<>>, visit_scalar(visitor, <<>>), {})

deserialize_unit_struct(self, visitor) ==
    Visited("visit_unit", <<>>, visit_scalar(visitor, <<>>), {})

\* deserialize_newtype_struct handing on a deserializer over the rest of the list
deserialize_newtype_struct_rest(self) == IF self = <<>> THEN self ELSE Tail(self)

\* visitor.visit_newtype_struct(self): the deserializer the wrapper's visitor
\* is handed, on which the wrapped type then makes its own request
deserialize_newtype_struct(self) == self

\* deserialize_seq parsing each element itself and reporting the index
deserialize_seq_indexed(self, visitor) ==
    LET bad == { i \in 1..len(self) : ~parse(visitor.elem, values(self)[i]).ok }
    IN  IF bad # {}
        THEN Raise([kind |-> "ParseErrorAtIndex", expected_type |-> visitor.elem,
                    index |-> CHOOSE i \in bad : TRUE], {"values"})
        ELSE Visited("visit_seq", values(self), visit_seq(visitor, values(self)), {"values"})

deserialize_seq(self, visitor) ==
    Visited("visit_seq", values(self), visit_seq(visitor, values(self)), {"values"})

deserialize_tuple(self, n, visitor) ==
    IF len(self) # n
    THEN Raise(WrongNumberOfParameters(len(self), n), {"len"})
    ELSE Visited("visit_seq", values(self), visit_seq(visitor, values(self)),
                 {"len", "values"})

\* deserialize_tuple_struct rejecting only a list that is too short
deserialize_tuple_struct_atleast(self, n, visitor) ==
    IF len(self) < n
    THEN Raise(WrongNumberOfParameters(len(self), n), {"len"})
    ELSE Visited("visit_seq", values(self), visit_seq(visitor, values(self)),
                 {"len", "values"})

deserialize_tuple_struct(self, n, visitor) ==
    IF len(self) # n
    THEN Raise(WrongNumberOfParameters(len(self), n), {"len"})
    ELSE Visited("visit_seq", values(self), visit_seq(visitor, values(self)),
                 {"len", "values"})

deserialize_map(self, visitor) ==
    Visited("visit_map", iter_entries(self), visit_map(visitor, iter_entries(self)),
            {"iter_entries"})

deserialize_struct(self, visitor) == deserialize_map(self, visitor)

deserialize_enum(self, visitor) == Raise(unsupported_type_error(visitor), {})

(***************************************************************************)
(* The state machine: a router's Param List, a deserializer built over it, *)
(* and one request of the target type, possibly through newtype wrappers.  *)
(***************************************************************************)
NoRequest == [method |-> "none"]

NoResult == [pending |-> TRUE]

Init ==
    /\ params \in ParamLists
    /\ deserializer = new(params)
    /\ pc = "request"
    /\ depth = 0
    /\ request = NoRequest
    /\ result = NoResult
    /\ calls = <<>>
    /\ reads = {}
    /\ raisedBy = "none"

\* the method returns and the decode is over
Return(req, out) ==
    /\ pc = "request"
    /\ pc' = "done"
    /\ request' = req
    /\ result' = out.res
    /\ calls' = calls \o out.calls
    /\ reads' = reads \cup out.reads
    /\ raisedBy' = out.by
    /\ UNCHANGED <<params, deserializer, depth>>

Call_unsupported_type ==
    \E f \in UnsupportedMethods, v \in UnsupportedVisitors :
        Return(Request(f, v), unsupported_type(deserializer, v))

Call_parse_single_value ==
    \E m \in ScalarMethods, v \in ScalarVisitors :
        Return(ScalarRequest(m.trait_fn, v, m),
               parse_single_value(deserializer, m, v))

Call_deserialize_unit ==
    \E v \in ScalarVisitors :
        Return(Request("deserialize_unit", v), deserialize_unit(deserializer, v))

Call_deserialize_unit_struct ==
    \E v \in ScalarVisitors :
        Return(Request("deserialize_unit_struct", v),
               deserialize_unit_struct(deserializer, v))

\* the wrapper's visitor either takes the deserializer it is handed and lets
\* the wrapped type make its request on it, or does not implement the callback
Call_deserialize_newtype_struct ==
    /\ pc = "request"
    /\ depth < MaxDepth
    /\ \E v \in ScalarVisitors :
        LET handed == deserialize_newtype_struct(deserializer)
            ret    == IF v.accept THEN Ok(handed) ELSE Err(custom("invalid type"))
        IN  /\ calls' = Append(calls, [fn |-> "visit_newtype_struct", arg |-> handed, ret |-> ret])
            /\ IF v.accept
               THEN /\ deserializer' = handed
                    /\ depth' = depth + 1
                    /\ UNCHANGED <<pc, request, result, raisedBy>>
               ELSE /\ pc' = "done"
                    /\ request' = Request("deserialize_newtype_struct", v)
                    /\ result' = ret
                    /\ raisedBy' = "receiver"
                    /\ UNCHANGED <<deserializer, depth>>
    /\ UNCHANGED <<params, reads>>

Call_deserialize_seq ==
    \E v \in SeqVisitors :
        Return(Request("deserialize_seq", v), deserialize_seq(deserializer, v))

Call_deserialize_tuple ==
    \E n \in 0..MaxArity, v \in SeqVisitors :
        Return(TupleRequest("deserialize_tuple", v, n),
               deserialize_tuple(deserializer, n, v))

Call_deserialize_tuple_struct ==
    \E n \in 0..MaxArity, v \in SeqVisitors :
        Return(TupleRequest("deserialize_tuple_struct", v, n),
               deserialize_tuple_struct(deserializer, n, v))

Call_deserialize_map ==
    \E v \in MapVisitors :
        Return(Request("deserialize_map", v), deserialize_map(deserializer, v))

Call_deserialize_struct ==
    \E v \in MapVisitors :
        Return(Request("deserialize_struct", v),
               deserialize_struct(deserializer, v))

Call_deserialize_enum ==
    \E v \in UnsupportedVisitors :
        Return(Request("deserialize_enum", v), deserialize_enum(deserializer, v))

Next ==
    \/ Call_unsupported_type
    \/ Call_parse_single_value
    \/ Call_deserialize_unit
    \/ Call_deserialize_unit_struct
    \/ Call_deserialize_newtype_struct
    \/ Call_deserialize_seq
    \/ Call_deserialize_tuple
    \/ Call_deserialize_tuple_struct
    \/ Call_deserialize_map
    \/ Call_deserialize_struct
    \/ Call_deserialize_enum

Spec == Init /\ [][Next]_vars

(***************************************************************************)
(* Properties.                                                             *)
(***************************************************************************)
Done == pc = "done"

Principal == <<"p", "r", "i", "n", "c", "i", "p", "a", "l">>
Path == <<"p", "a", "t", "h">>
User == <<"u", "s", "e", "r">>
Interesting == <<"i", "n", "t", "e", "r", "e", "s", "t", "i", "n", "g">>

\* [("principal", "user"), ("path", "interesting")]
Example == << <<Principal, User>>, <<Path, Interesting>> >>

\* the callbacks the requested method itself invoked: those after the wrappers'
MethodCalls == SubSeq(calls, depth + 1, Len(calls))

\* the methods of the primitive scalar kinds: bool, the integers, the floats,
\* String and char
PrimitiveMethods == { m.trait_fn : m \in ScalarMethods } \ {"deserialize_byte_buf"}

\* the list with its keys replaced by ks
Rekeyed(p, ks) == [i \in 1..Len(p) |-> <<ks[i], p[i][2]>>]

\* C1: a bare-scalar decode of a list whose length L is not 1 returns
\* WrongNumberOfParameters{got: L, expected: 1}, whatever the values are; no
\* receiver callback is invoked and no value is looked at.
C1_ScalarArity ==
    (Done /\ request.method \in PrimitiveMethods /\ Len(params) # 1) =>
        /\ result = Err(WrongNumberOfParameters(Len(params), 1))
        /\ MethodCalls = <<>>
        /\ reads = {"len"}

C1_Witness ==
    /\ Done
    /\ request.method = "deserialize_i32"
    /\ params = << <<Principal, User>>, <<Path, <<"7">> >> >>
    /\ result = Err(WrongNumberOfParameters(2, 1))

\* C2: a bare-scalar decode of kind K over a list of length 1 either invokes
\* the receiver's callback for K exactly once with the parsed value and
\* returns what that callback returned, when the sole value parses as K, or
\* returns ParseError{value: the raw text, expected_type: K} with no callback
\* invoked; the key of the pair plays no part.
C2_ScalarOutcome ==
    (Done /\ request.method \in PrimitiveMethods /\ Len(params) = 1) =>
        LET K      == request.macro.ty
            text   == params[1][2]
            parsed == parse(K, text)
        IN  /\ IF parsed.ok
               THEN /\ Len(MethodCalls) = 1
                    /\ ArgType(MethodCalls[1].fn) = K
                    /\ MethodCalls[1].arg = parsed.val
                    /\ result = MethodCalls[1].ret
               ELSE /\ result = Err(ParseError(text, K))
                    /\ MethodCalls = <<>>
            /\ \A k \in Keys :
                 parse_single_value(<< <<k, text>> >>, request.macro, request.visitor).res = result

C2_Witness ==
    /\ Done
    /\ request.method = "deserialize_i8"
    /\ params = << <<Principal, <<"-", "1", "2", "9">> >> >>
    /\ result = Err(ParseError(<<"-", "1", "2", "9">>, "i8"))
    /\ calls = <<>>

\* C3: a tuple or tuple struct decode of arity N over a list of length L
\* returns WrongNumberOfParameters{got: L, expected: N} without invoking the
\* receiver when L # N, and invokes the receiver's sequence callback when
\* L = N, N = 0 against the empty list included.
C3_TupleArity ==
    (Done /\ request.method \in {"deserialize_tuple", "deserialize_tuple_struct"}) =>
        IF Len(params) # request.arity
        THEN /\ result = Err(WrongNumberOfParameters(Len(params), request.arity))
             /\ MethodCalls = <<>>
        ELSE /\ Len(MethodCalls) = 1
             /\ MethodCalls[1].fn = "visit_seq"

C3_Witness ==
    /\ Done
    /\ request.method = "deserialize_tuple_struct"
    /\ request.arity = 0
    /\ params = <<>>
    /\ Len(calls) = 1
    /\ calls[1].fn = "visit_seq"

\* C4: a map decode hands the receiver exactly the list's (key, value) pairs, as
\* many as the list has, in list order, repeated keys kept; a struct decode
\* hands over what a map decode of the same list does, and struct Path decoded
\* from [(principal, user), (path, interesting)] has principal = user and
\* path = interesting.
C4_MapPairs ==
    (Done /\ request.method \in {"deserialize_map", "deserialize_struct"}) =>
        /\ Len(MethodCalls) = 1
        /\ MethodCalls[1].fn = "visit_map"
        /\ Len(MethodCalls[1].arg) = Len(params)
        /\ \A i \in 1..Len(params) : MethodCalls[1].arg[i] = params[i]
        /\ MethodCalls = deserialize_map(params, request.visitor).calls
        /\ result = deserialize_map(params, request.visitor).res
        /\ (params = Example /\ request.visitor = [value |-> "Path", accept |-> TRUE]) =>
              result = Ok([built |-> "Path", of |-> [principal |-> User, path |-> Interesting]])

C4_Witness ==
    /\ Done
    /\ request.method = "deserialize_struct"
    /\ params = Example
    /\ result = Ok([built |-> "Path", of |-> [principal |-> User, path |-> Interesting]])

\* C5: a sequence decode, and a tuple decode whose arity matches, hand the
\* receiver the list's values in list order with the keys dropped, so the same
\* values under any other keys decode to the same result; the example list as
\* a 2-tuple of text is (user, interesting).
C5_SeqValues ==
    (Done /\ (request.method = "deserialize_seq"
              \/ (request.method = "deserialize_tuple" /\ request.arity = Len(params)))) =>
        /\ Len(MethodCalls) = 1
        /\ MethodCalls[1].fn = "visit_seq"
        /\ MethodCalls[1].arg = [i \in 1..Len(params) |-> params[i][2]]
        /\ \A ks \in [1..Len(params) -> Keys] :
             /\ deserialize_seq(Rekeyed(params, ks), request.visitor).res = result
             /\ deserialize_tuple(Rekeyed(params, ks), Len(params), request.visitor).res = result
        /\ (params = Example /\ request.visitor.accept /\ request.visitor.want \in {-1, 2}
              /\ request.visitor.elem = "String") =>
              result = Ok([built |-> "Seq", of |-> <<[text |-> User], [text |-> Interesting]>>])

C5_Witness ==
    /\ Done
    /\ request.method = "deserialize_tuple"
    /\ request.arity = 2
    /\ params = Example
    /\ result = Ok([built |-> "Seq", of |-> <<[text |-> User], [text |-> Interesting]>>])

\* the methods of the enum, optional, identifier, any, ignored-value and
\* borrowed-text shapes
RejectedMethods ==
    { "deserialize_option", "deserialize_identifier", "deserialize_ignored_any",
      "deserialize_str", "deserialize_any", "deserialize_enum" }

\* C6: a request for an enum, an optional, an identifier, a self-describing, an
\* ignored-value or a borrowed-text shape returns UnsupportedType naming the
\* requested type for every list; no receiver callback is invoked and the list
\* is not looked at.
C6_Unsupported ==
    (Done /\ request.method \in RejectedMethods) =>
        /\ result = Err(UnsupportedType(request.visitor.value))
        /\ MethodCalls = <<>>
        /\ reads = {}

C6_Witness ==
    /\ Done
    /\ request.method = "deserialize_enum"
    /\ params = <<>>
    /\ result = Err(UnsupportedType("Method"))

\* what a single-text-value request does: an arity error unless the list has
\* one pair, whose value's text then goes to the receiver as visit_string
LikeSingleText ==
    /\ Len(params) # 1 =>
          /\ result = Err(WrongNumberOfParameters(Len(params), 1))
          /\ MethodCalls = <<>>
    /\ Len(params) = 1 =>
          /\ Len(MethodCalls) = 1
          /\ MethodCalls[1].fn = "visit_string"
          /\ MethodCalls[1].arg = [text |-> params[1][2]]
          /\ result = MethodCalls[1].ret
    /\ ~(~result.ok /\ result.err.kind = "UnsupportedType")

\* C7 as claimed: both byte-buffer requests, deserialize_byte_buf and
\* deserialize_bytes, behave like a single-text-value request and neither
\* returns UnsupportedType.
C7_BytesLikeText ==
    (Done /\ request.method \in {"deserialize_byte_buf", "deserialize_bytes"}) => LikeSingleText

\* C7 amended: the owned byte-buffer request, deserialize_byte_buf, behaves like
\* a single-text-value request for every list; the plain bytes request,
\* deserialize_bytes, returns UnsupportedType naming the requested type for
\* every list and invokes no callback.
C7_ByteBufLikeText ==
    /\ (Done /\ request.method = "deserialize_byte_buf") => LikeSingleText
    /\ (Done /\ request.method = "deserialize_bytes") =>
          /\ result = Err(UnsupportedType(request.visitor.value))
          /\ MethodCalls = <<>>

C7_Witness ==
    /\ Done
    /\ request.method = "deserialize_byte_buf"
    /\ params = << <<Path, Interesting>> >>
    /\ Len(calls) = 1
    /\ calls[1].fn = "visit_string"
    /\ calls[1].arg = [text |-> Interesting]
    /\ result.ok

\* C8: a unit or unit struct decode invokes the receiver's unit callback, once,
\* for every list, empty or not, and returns what it returned; the engine
\* raises no error of its own and does not look at the list.
C8_Unit ==
    (Done /\ request.method \in {"deserialize_unit", "deserialize_unit_struct"}) =>
        /\ Len(MethodCalls) = 1
        /\ MethodCalls[1].fn = "visit_unit"
        /\ result = MethodCalls[1].ret
        /\ raisedBy # "engine"
        /\ reads = {}

C8_Witness ==
    /\ Done
    /\ request.method = "deserialize_unit_struct"
    /\ Len(params) = 2
    /\ result = Ok([built |-> "T", of |-> <<>>])

\* what the request made at the end returns when made directly on list p
Direct(req, p) ==
    CASE req.method \in UnsupportedMethods -> unsupported_type(p, req.visitor)
      [] req.method \in { m.trait_fn : m \in ScalarMethods } ->
            parse_single_value(p, req.macro, req.visitor)
      [] req.method = "deserialize_unit" -> deserialize_unit(p, req.visitor)
      [] req.method = "deserialize_unit_struct" -> deserialize_unit_struct(p, req.visitor)
      [] req.method = "deserialize_seq" -> deserialize_seq(p, req.visitor)
      [] req.method = "deserialize_tuple" -> deserialize_tuple(p, req.arity, req.visitor)
      [] req.method = "deserialize_tuple_struct" ->
            deserialize_tuple_struct(p, req.arity, req.visitor)
      [] req.method = "deserialize_map" -> deserialize_map(p, req.visitor)
      [] req.method = "deserialize_struct" -> deserialize_struct(p, req.visitor)
      [] req.method = "deserialize_enum" -> deserialize_enum(p, req.visitor)

\* C9: under any number d >= 1 of newtype wrappers the wrapped shape's request
\* is made on a deserializer over the whole list the router supplied: every
\* wrapper hands on that list, and the result, the counts of an arity error
\* included, is the result of the same request made directly on the list.
C9_NewtypeSameList ==
    /\ \A i \in 1..Len(calls) : calls[i].fn = "visit_newtype_struct" => calls[i].arg = params
    /\ depth >= 1 => deserializer = params
    /\ (Done /\ depth >= 1 /\ request.method # "deserialize_newtype_struct") =>
          /\ result = Direct(request, params).res
          /\ MethodCalls = Direct(request, params).calls

C9_Witness ==
    /\ Done
    /\ depth = 2
    /\ request.method = "deserialize_tuple"
    /\ request.arity = 1
    /\ Len(params) = 2
    /\ result = Err(WrongNumberOfParameters(2, 1))

\* C10: the errors the engine itself raises are UnsupportedType,
\* WrongNumberOfParameters and ParseError; a Custom error in a result is one a
\* receiver callback returned; ParseErrorAtKey and ParseErrorAtIndex never
\* appear, also when an element of a sequence is asked for as an integer.
C10_ErrorOrigins ==
    (Done /\ ~result.ok) =>
        /\ result.err.kind \in ErrorKinds \ {"ParseErrorAtKey", "ParseErrorAtIndex"}
        /\ raisedBy = "engine" =>
              result.err.kind \in {"UnsupportedType", "WrongNumberOfParameters", "ParseError"}
        /\ result.err.kind = "Custom" =>
              /\ raisedBy = "receiver"
              /\ calls # <<>>
              /\ calls[Len(calls)].ret = result

C10_Witness ==
    /\ Done
    /\ request.method = "deserialize_seq"
    /\ request.visitor.elem = "i32"
    /\ request.visitor.want = -1
    /\ params = << <<Principal, User>> >>
    /\ result = Err(custom("invalid type"))
    /\ raisedBy = "receiver"

====
